---- MODULE Spec2Model ----
(***************************************************************************)
(* rustdoc_seeker: the search-manifest normalizer (src/src/json.rs), the   *)
(* record resolver (src/src/parser.rs) and the catalog, index builder and  *)
(* seeker (src/src/seeker.rs).                                             *)
(*                                                                         *)
(* Strings are sequences of byte values, compared as Rust compares str     *)
(* and [u8]: bytewise, a proper prefix first.                              *)
(***************************************************************************)
EXTENDS Integers, Sequences, FiniteSets, TLC

VARIABLES
    \* fix_json (json.rs)
    json, pos, is_escape, is_string, buffer,
    \* RustDoc::from_str (parser.rs)
    lines_read, index_items, index_paths, item_pos, last_path, parsed_items,
    parse_state, returned,
    \* RustDoc / RustDocSeeker (seeker.rs)
    rustdoc_items, offered, phase, seeker_items, builder, index, group_start,
    ranges, aut, result, result_pos, front, yielded, requested, work,
    \* DocItem::fmt_url (seeker.rs)
    url_item, url_rest, url_out, url_state

json_vars == <<json, pos, is_escape, is_string, buffer>>
parse_vars == <<lines_read, index_items, index_paths, item_pos, last_path,
                parsed_items, parse_state, returned>>
catalog_vars == <<rustdoc_items, offered>>
build_vars == <<phase, seeker_items, builder, index, group_start, ranges>>
search_vars == <<aut, result, result_pos, front, yielded, requested, work>>
url_vars == <<url_item, url_rest, url_out, url_state>>
vars == <<json_vars, parse_vars, catalog_vars, build_vars, search_vars, url_vars>>

----------------------------------------------------------------------------
(* Byte strings *)

\* Option<T>: None is the empty sequence, Some(x) the sequence of x alone
None == <<>>
Some(x) == <<x>>

MinOf(S) == CHOOSE x \in S : \A y \in S : x <= y

\* Ordering of str / [u8] / Atom: -1 less, 0 equal, 1 greater
BytesCmp(a, b) ==
    LET n == IF Len(a) < Len(b) THEN Len(a) ELSE Len(b)
        diff == {i \in 1..n : a[i] /= b[i]}
    IN  IF diff = {}
        THEN (IF Len(a) < Len(b) THEN -1 ELSE IF Len(a) > Len(b) THEN 1 ELSE 0)
        ELSE (IF a[MinOf(diff)] < b[MinOf(diff)] THEN -1 ELSE 1)

\* Ordering::then_with
ThenWith(c, d) == IF c /= 0 THEN c ELSE d

\* All sequences over S of length at most n
SeqsUpTo(S, n) == UNION {[1..k -> S] : k \in 0..n}

----------------------------------------------------------------------------
(* json.rs: fix_json *)

\* Longest manifest text given to fix_json
MaxJsonLen == 4

ChN == 78
ChQuote == 34
ChBackslash == 92
ChOther == 49
JsonChars == {ChN, ChQuote, ChBackslash, ChOther}
NullLiteral == <<110, 117, 108, 108>>

JsonInit ==
    /\ json \in SeqsUpTo(JsonChars, MaxJsonLen)
    /\ pos = 0
    /\ is_escape = FALSE
    /\ is_string = FALSE
    /\ buffer = <<>>

\* The first arm of the match: 'N' if !is_string
ReplacesN(chr, in_string, escaped) == chr = ChN /\ ~in_string

\* One iteration of `for chr in json.as_ref().chars()`
FixJsonStep ==
    /\ pos < Len(json)
    /\ LET chr == json[pos + 1] IN
        IF ReplacesN(chr, is_string, is_escape)
        THEN /\ buffer' = buffer \o NullLiteral
             /\ UNCHANGED <<is_escape, is_string>>
        ELSE /\ IF chr = ChQuote /\ ~is_escape
                THEN is_string' = ~is_string /\ UNCHANGED is_escape
                ELSE IF chr = ChBackslash /\ ~is_escape
                     THEN is_escape' = TRUE /\ UNCHANGED is_string
                     ELSE is_escape' = FALSE /\ UNCHANGED is_string
             /\ buffer' = Append(buffer, chr)
    /\ pos' = pos + 1
    /\ UNCHANGED json

FixJsonDone == pos = Len(json)

JsonIdle ==
    /\ json = <<>>
    /\ pos = 0
    /\ is_escape = FALSE
    /\ is_string = FALSE
    /\ buffer = <<>>

----------------------------------------------------------------------------
(* parser.rs: ItemType, SearchIndex, RustDoc::from_str *)

\* Lines of one manifest text
MaxLines == 2
\* Items of all the fragments of one manifest text
MaxRawItems == 3

\* The largest value visit_u64 maps to a variant
MaxTypeTag == 22

EmptyStr == <<>>
PathA == <<97>>
PathB == <<98>>

\* ItemType::deserialize / visit_u64: Ok for a mapped value, Err otherwise
ItemTypeOk(value) == value \in 0..MaxTypeTag

RawTags == {5, 23}
RawPaths == {EmptyStr, PathA, PathB}
RawParentIdx == {None, Some(0), Some(1)}
RawItems ==
    [ty : RawTags, name : {<<120>>}, path : RawPaths, desc : {EmptyStr},
     parent_idx : RawParentIdx]
RawParents == {<<[ty |-> 3, name |-> <<86>>]>>,
               <<[ty |-> 3, name |-> <<86>>], [ty |-> 4, name |-> <<87>>]>>}

\* A line of the text: one that does not start with "searchIndex", one that
\* starts with it and holds no '=', one whose fragment is not JSON of the
\* SearchIndex shape, or a fragment
LinesWith(n) ==
    {[kind |-> k, items |-> <<>>, paths |-> <<>>] : k \in {"other", "noeq", "badjson"}}
    \cup [kind : {"index"}, items : SeqsUpTo(RawItems, n), paths : RawParents]

RawCount(ls) ==
    LET RECURSIVE Sum(_)
        Sum(k) == IF k = 0 THEN 0 ELSE Sum(k - 1) + Len(ls[k].items)
    IN Sum(Len(ls))

\* serde_json::from_str::<SearchIndex>: every ItemType of the fragment is
\* deserialized before any item is resolved
DeserializeOk(line) ==
    /\ line.kind = "index"
    /\ \A i \in 1..Len(line.items) : ItemTypeOk(line.items[i].ty)
    /\ \A i \in 1..Len(line.paths) : ItemTypeOk(line.paths[i].ty)

\* last_path declared outside the loop over the lines: never reset
FragmentStartPathKept(prev) == prev

\* let mut last_path = DefaultAtom::from("") at the start of each fragment
FragmentStartPath(prev) == EmptyStr

\* if !item.path.is_empty() { last_path = item.path }
NextLastPath(prev, path) == IF path /= EmptyStr THEN path ELSE prev

\* parents.get(idx).cloned(): an index past the end gives no parent
ResolveParentLenient(parents, idx) ==
    IF idx /= None /\ idx[1] + 1 <= Len(parents)
    THEN [panic |-> FALSE, parent |-> Some(parents[idx[1] + 1])]
    ELSE [panic |-> FALSE, parent |-> None]

\* item.parent_idx.map(|idx| parents[idx].clone()): indexing past the end panics
ResolveParent(parents, idx) ==
    IF idx = None THEN [panic |-> FALSE, parent |-> None]
    ELSE IF idx[1] + 1 <= Len(parents)
         THEN [panic |-> FALSE, parent |-> Some(parents[idx[1] + 1])]
         ELSE [panic |-> TRUE, parent |-> None]

\* The item handed to DocItem::from: path and parent resolved
ResolvedItem(item, path, parent) ==
    [ty |-> item.ty, name |-> item.name, path |-> path, desc |-> item.desc,
     parent |-> parent]

ParseInit ==
    /\ lines_read = <<>>
    /\ index_items = <<>>
    /\ index_paths = <<>>
    /\ item_pos = 0
    /\ last_path = EmptyStr
    /\ parsed_items = <<>>
    /\ parse_state = "lines"
    /\ returned = None

\* The next line of s.lines(): filtered out, or sliced and deserialized
ReadLine ==
    /\ parse_state = "lines"
    /\ Len(lines_read) < MaxLines
    /\ \E line \in LinesWith(MaxRawItems - RawCount(lines_read)) :
        /\ lines_read' = Append(lines_read, line)
        /\ IF line.kind = "other"
           THEN UNCHANGED <<index_items, index_paths, item_pos, last_path,
                            parse_state>>
           ELSE IF ~DeserializeOk(line)
           THEN /\ parse_state' = "panic"
                /\ UNCHANGED <<index_items, index_paths, item_pos, last_path>>
           ELSE /\ index_items' = line.items
                /\ index_paths' = line.paths
                /\ item_pos' = 0
                /\ last_path' = FragmentStartPath(last_path)
                /\ parse_state' = IF Len(line.items) = 0 THEN "lines" ELSE "items"
    /\ UNCHANGED <<parsed_items, returned>>

\* One iteration of `for mut item in index.items`
ResolveItem ==
    /\ parse_state = "items"
    /\ LET item == index_items[item_pos + 1]
           path == NextLastPath(last_path, item.path)
           res == ResolveParent(index_paths, item.parent_idx)
           parent == res.parent
       IN  /\ last_path' = path
           /\ IF res.panic
              THEN /\ parse_state' = "panic"
                   /\ UNCHANGED <<parsed_items, item_pos>>
              ELSE /\ parsed_items' =
                        Append(parsed_items, ResolvedItem(item, path, parent))
                   /\ item_pos' = item_pos + 1
                   /\ parse_state' =
                        IF item_pos + 1 = Len(index_items) THEN "lines" ELSE "items"
    /\ UNCHANGED <<lines_read, index_items, index_paths, returned>>

\* Ok(RustDoc::new(items)) once the lines are exhausted
ParseFinish ==
    /\ parse_state = "lines"
    /\ returned' = Some(parsed_items)
    /\ parse_state' = "ok"
    /\ UNCHANGED <<lines_read, index_items, index_paths, item_pos, last_path,
                   parsed_items>>

----------------------------------------------------------------------------
(* seeker.rs: TypeItem, DocItem *)

\* enum_number!(TypeItem ...): the display text of each variant
TagDisplay(tag) ==
    CASE tag = 0 -> <<109, 111, 100, 117, 108, 101>>                           \* module
      [] tag = 1 -> <<101, 120, 116, 101, 114, 110, 99, 114, 97, 116, 101>>    \* externcrate
      [] tag = 2 -> <<105, 109, 112, 111, 114, 116>>                           \* import
      [] tag = 3 -> <<115, 116, 114, 117, 99, 116>>                            \* struct
      [] tag = 4 -> <<101, 110, 117, 109>>                                     \* enum
      [] tag = 5 -> <<102, 110>>                                               \* fn
      [] tag = 6 -> <<116, 121, 112, 101>>                                     \* type
      [] tag = 7 -> <<115, 116, 97, 116, 105, 99>>                             \* static
      [] tag = 8 -> <<116, 114, 97, 105, 116>>                                 \* trait
      [] tag = 9 -> <<105, 109, 112, 108>>                                     \* impl
      [] tag = 10 -> <<116, 121, 109, 101, 116, 104, 111, 100>>                \* tymethod
      [] tag = 11 -> <<109, 101, 116, 104, 111, 100>>                          \* method
      [] tag = 12 -> <<115, 116, 114, 117, 99, 116, 102, 105, 101, 108, 100>>  \* structfield
      [] tag = 13 -> <<118, 97, 114, 105, 97, 110, 116>>                       \* variant
      [] tag = 14 -> <<109, 97, 99, 114, 111>>                                 \* macro
      [] tag = 15 -> <<112, 114, 105, 109, 105, 116, 105, 118, 101>>           \* primitive
      [] tag = 16 -> <<97, 115, 115, 111, 99, 105, 97, 116, 101, 100, 116, 121, 112, 101>> \* associatedtype
      [] tag = 17 -> <<99, 111, 110, 115, 116, 97, 110, 116>>                  \* constant
      [] tag = 18 -> <<97, 115, 115, 111, 99, 105, 97, 116, 101, 100, 99, 111, 110, 115, 116>> \* associatedconst
      [] tag = 19 -> <<117, 110, 105, 111, 110>>                               \* union
      [] tag = 20 -> <<102, 111, 114, 101, 105, 103, 110, 116, 121, 112, 101>> \* foreigntype
      [] tag = 21 -> <<107, 101, 121, 119, 111, 114, 100>>                     \* keyword
      [] tag = 22 -> <<101, 120, 105, 115, 116, 101, 110, 116, 105, 97, 108>>  \* existential

\* TypeItem::new(tag, data)
TypeItem(tag, data) == [tag |-> tag, data |-> data]

ChDot == 46

\* Display for TypeItem: write!(f, "{}.{}", $display, data)
TypeItemDisplay(t) == TagDisplay(t.tag) \o <<ChDot>> \o t.data

\* DocItem::new
DocItem(name, parent, path, desc) ==
    [name |-> name, parent |-> parent, path |-> path, desc |-> desc]

\* DocItem::parent_atom: the parent's Atom, without its variant
parent_atom(item) ==
    IF item.parent = None THEN None ELSE Some(item.parent[1].data)

\* DocItem::index_key
index_key(item) == item.name.data

\* Ord for Option<&Atom>: None before Some, then the atoms' order
OptionCmp(a, b) ==
    IF a = None THEN (IF b = None THEN 0 ELSE -1)
    ELSE IF b = None THEN 1 ELSE BytesCmp(a[1], b[1])

\* Ord for DocItem
DocItemCmp(a, b) ==
    ThenWith(ThenWith(BytesCmp(index_key(a), index_key(b)),
                      BytesCmp(a.path, b.path)),
             OptionCmp(parent_atom(a), parent_atom(b)))

\* PartialEq for DocItem
DocItemEq(a, b) == a.name = b.name /\ a.parent = b.parent /\ a.path = b.path

----------------------------------------------------------------------------
(* seeker.rs: RustDoc *)

\* Most items a catalog is grown to
MaxCatalog == 4
\* Most items one extend call offers
MaxBatch == 2

NameA == <<97>>
NameAB == <<97, 98>>
ParentB == <<98>>
ParentC == <<99>>
PathP == <<112>>
PathQ == <<113>>

\* The items offered to a catalog: two keys; under the key "a" the same
\* (path, parent) under two name variants, a parent name under two parent
\* variants, two parent names whose order differs from the order of their
\* display forms ("struct.b" after "enum.c"), and two paths
ItemUniverse ==
    {DocItem(TypeItem(5, NameA), None, PathP, EmptyStr),
     DocItem(TypeItem(0, NameA), None, PathP, EmptyStr),
     DocItem(TypeItem(5, NameA), Some(TypeItem(3, ParentB)), PathP, EmptyStr),
     DocItem(TypeItem(5, NameA), Some(TypeItem(4, ParentB)), PathP, EmptyStr),
     DocItem(TypeItem(5, NameA), Some(TypeItem(4, ParentC)), PathP, EmptyStr),
     DocItem(TypeItem(5, NameA), None, PathQ, EmptyStr),
     DocItem(TypeItem(5, NameAB), None, PathP, EmptyStr),
     DocItem(TypeItem(5, NameAB), Some(TypeItem(3, ParentB)), PathQ, EmptyStr)}

\* BTreeSet::insert on the set in iteration order: an element that compares
\* Equal to a held one is dropped, the held one stays
BTreeInsert(s, x) ==
    IF \E i \in 1..Len(s) : DocItemCmp(s[i], x) = 0 THEN s
    ELSE LET k == Cardinality({i \in 1..Len(s) : DocItemCmp(s[i], x) < 0})
         IN  SubSeq(s, 1, k) \o <<x>> \o SubSeq(s, k + 1, Len(s))

\* BTreeSet::extend: insert each element of the iterator in turn
RECURSIVE BTreeExtend(_, _)
BTreeExtend(s, batch) ==
    IF batch = <<>> THEN s
    ELSE BTreeExtend(BTreeInsert(s, Head(batch)), Tail(batch))

\* What an offered item is told apart by: key bytes, path and parent
Offer(x) == [key |-> index_key(x), path |-> x.path, parent |-> x.parent]

SeqRange(s) == {s[i] : i \in 1..Len(s)}

CatalogInit ==
    /\ rustdoc_items = <<>>
    /\ offered = {}

\* Extend<DocItem> for RustDoc (FromIterator is extend on an empty set)
Extend ==
    /\ phase = "catalog"
    /\ \E batch \in SeqsUpTo(ItemUniverse, MaxBatch) \ {<<>>} :
        /\ rustdoc_items' = BTreeExtend(rustdoc_items, batch)
        /\ Len(rustdoc_items') <= MaxCatalog
        /\ offered' = offered \cup {Offer(x) : x \in SeqRange(batch)}
    /\ UNCHANGED <<build_vars, search_vars>>

----------------------------------------------------------------------------
(* seeker.rs: RustDoc::build *)

\* Bits of each half of a packed range. The code packs two 32-bit halves
\* into a u64; the model keeps the arithmetic and scales the width down so
\* that a catalog at the limit can be enumerated.
HalfBits == 2

HalfRange == 2 ^ HalfBits
\* u32::MAX
U32Max == HalfRange - 1
\* u64 arithmetic wraps at twice the half width
WordRange == HalfRange * HalfRange

\* The assertion off by one: a count one past the limit let through
CapacityOkPlusOne(len) == len <= U32Max + 1

\* assert!(items.len() as u64 <= u32::MAX as u64)
CapacityOk(len) == len <= U32Max

\* group_by(|(_, item)| item.index_key()): the position after the run of
\* equal keys that starts at position `start` (positions count from 0)
RunEnd(items, start) ==
    LET key == index_key(items[start + 1])
        stop == {i \in start + 1..Len(items) - 1 : index_key(items[i + 1]) /= key}
    IN  IF stop = {} THEN Len(items) ELSE MinOf(stop)

\* The end without its + 1: the position of the run's last element
RangeEndLast(start, last) == last

\* let end = group.last().map_or(start, |(i, _)| i) + 1, where `last` is
\* the position of the run's last element when the run has more than one
RangeEnd(start, last) == last + 1

\* ((start as u64) << 32) + end as u64
Pack(start, end) == (((start * HalfRange) % WordRange) + end) % WordRange

\* MapBuilder::insert: keys must arrive in strictly ascending order
InsertOk(map, key) ==
    map = <<>> \/ BytesCmp(map[Len(map)].key, key) < 0

BuildInit ==
    /\ phase = "catalog"
    /\ seeker_items = <<>>
    /\ builder = <<>>
    /\ index = <<>>
    /\ group_start = 0
    /\ ranges = <<>>

\* build, up to the assertion: the set is moved into a boxed slice
BuildStart ==
    /\ phase = "catalog"
    /\ seeker_items' = rustdoc_items
    /\ rustdoc_items' = <<>>
    /\ offered' = {}
    /\ phase' = IF CapacityOk(Len(rustdoc_items)) THEN "building" ELSE "capacity_panic"
    /\ UNCHANGED <<builder, index, group_start, ranges, search_vars>>

\* One iteration of `for (key, mut group) in groups.into_iter()`
BuildGroup ==
    /\ phase = "building"
    /\ group_start < Len(seeker_items)
    /\ LET key == index_key(seeker_items[group_start + 1])
           next == RunEnd(seeker_items, group_start)
           end == RangeEnd(group_start, next - 1)
           val == Pack(group_start, end)
       IN  /\ IF InsertOk(builder, key)
              THEN /\ builder' = Append(builder, [key |-> key, val |-> val])
                   /\ ranges' = Append(ranges, [start |-> group_start, end |-> end])
                   /\ phase' = "building"
              ELSE /\ phase' = "insert_panic"
                   /\ UNCHANGED <<builder, ranges>>
           /\ group_start' = next
    /\ UNCHANGED <<catalog_vars, seeker_items, index, search_vars>>

\* builder.into_map() and the RustDocSeeker returned
BuildFinish ==
    /\ phase = "building"
    /\ group_start = Len(seeker_items)
    /\ index' = builder
    /\ builder' = <<>>
    /\ phase' = "built"
    /\ UNCHANGED <<catalog_vars, seeker_items, group_start, ranges, search_vars>>

----------------------------------------------------------------------------
(* seeker.rs: RustDocSeeker::search *)

\* The fst::Automaton handed to search: start(), is_match(), can_match()
\* and accept(), here for AlwaysMatch, Str("a"), Str("a").starts_with()
\* and Subsequence("b")
Automata == {"always", "str_a", "starts_a", "subseq_b"}

AutStart(a) == 0

AutIsMatch(a, st) ==
    CASE a = "always" -> TRUE
      [] a = "str_a" -> st = 1
      [] a = "starts_a" -> st = 1
      [] a = "subseq_b" -> st = 1

AutCanMatch(a, st) ==
    CASE a = "always" -> TRUE
      [] a = "str_a" -> st /= 2
      [] a = "starts_a" -> st /= 2
      [] a = "subseq_b" -> TRUE

AutAccept(a, st, byte) ==
    CASE a = "always" -> 0
      [] a = "str_a" -> IF st = 0 /\ byte = 97 THEN 1 ELSE 2
      [] a = "starts_a" -> IF st = 1 \/ (st = 0 /\ byte = 97) THEN 1 ELSE 2
      [] a = "subseq_b" -> IF st = 1 \/ byte = 98 THEN 1 ELSE 0

\* The automaton's state after the bytes of `key`
RECURSIVE AutRun(_, _, _)
AutRun(a, st, key) ==
    IF key = <<>> THEN st ELSE AutRun(a, AutAccept(a, st, Head(key)), Tail(key))

\* fst's stream walks the key trie and leaves a node whose automaton state
\* cannot match: a key is visited when every proper prefix of it can match
Visited(a, key) ==
    \A n \in 0..Len(key) - 1 : AutCanMatch(a, AutRun(a, AutStart(a), SubSeq(key, 1, n)))

\* The walk yielding every key it visits, is_match not asked
EmittedIfVisited(a, key) == Visited(a, key)

\* ... and it is yielded when the state after its last byte is a match
Emitted(a, key) == Visited(a, key) /\ AutIsMatch(a, AutRun(a, AutStart(a), key))

\* The stream asked for nothing at the call: no value collected
SearchValuesNotCollected(a, map) == <<>>

\* self.index.search(aut).into_stream().into_values(): the values of the
\* emitted keys, in key order, collected into a Vec
RECURSIVE SearchValues(_, _)
SearchValues(a, map) ==
    IF map = <<>> THEN <<>>
    ELSE (IF Emitted(a, Head(map).key) THEN <<Head(map).val>> ELSE <<>>)
         \o SearchValues(a, Tail(map))

\* Calls of accept() the walk makes: one for each trie edge it follows
AcceptCalls(a, map) ==
    Cardinality({p \in UNION {{SubSeq(map[i].key, 1, n) : n \in 1..Len(map[i].key)}
                              : i \in 1..Len(map)} : Visited(a, p)})

\* let start = (idx >> 32) as usize; let end = (idx & 0xffffffff) as usize
DecodeStart(idx) == idx \div HalfRange
DecodeEnd(idx) == idx % HalfRange

\* &self.items[start..end] panics unless start <= end <= len
SliceOk(items, idx) ==
    DecodeStart(idx) <= DecodeEnd(idx) /\ DecodeEnd(idx) <= Len(items)

\* FlatMap::next once the front slice is used up: take values from the Vec
\* until one decodes to a slice that is not empty
RECURSIVE NextSlice(_, _, _)
NextSlice(items, vals, p) ==
    IF p >= Len(vals) THEN [pos |-> p, front |-> None, panic |-> FALSE]
    ELSE IF ~SliceOk(items, vals[p + 1])
         THEN [pos |-> p + 1, front |-> None, panic |-> TRUE]
    ELSE IF DecodeStart(vals[p + 1]) < DecodeEnd(vals[p + 1])
         THEN [pos |-> p + 1, panic |-> FALSE,
               front |-> Some([next |-> DecodeStart(vals[p + 1]),
                               end |-> DecodeEnd(vals[p + 1])])]
    ELSE NextSlice(items, vals, p + 1)

SearchInit ==
    /\ aut = None
    /\ result = <<>>
    /\ result_pos = 0
    /\ front = None
    /\ yielded = <<>>
    /\ requested = 0
    /\ work = 0

\* search(&aut): the matching values are collected, the iterator over the
\* slices is returned
SearchCall ==
    /\ phase = "built"
    /\ \E a \in Automata :
        /\ aut' = Some(a)
        /\ result' = SearchValues(a, index)
        /\ work' = AcceptCalls(a, index)
    /\ result_pos' = 0
    /\ front' = None
    /\ yielded' = <<>>
    /\ requested' = 0
    /\ UNCHANGED <<catalog_vars, build_vars>>

\* next() on the returned iterator
SearchNext ==
    /\ phase = "built"
    /\ aut /= None
    /\ requested - Len(yielded) < 2
    /\ requested' = requested + 1
    /\ IF front /= None /\ front[1].next < front[1].end
       THEN /\ yielded' = Append(yielded, seeker_items[front[1].next + 1])
            /\ front' = Some([front[1] EXCEPT !.next = @ + 1])
            /\ UNCHANGED <<result_pos, phase>>
       ELSE LET s == NextSlice(seeker_items, result, result_pos) IN
            /\ result_pos' = s.pos
            /\ IF s.panic
               THEN /\ phase' = "slice_panic"
                    /\ UNCHANGED <<yielded, front>>
               ELSE IF s.front = None
               THEN UNCHANGED <<yielded, front, phase>>
               ELSE /\ yielded' = Append(yielded, seeker_items[s.front[1].next + 1])
                    /\ front' = Some([s.front[1] EXCEPT !.next = @ + 1])
                    /\ UNCHANGED phase
    /\ UNCHANGED <<catalog_vars, seeker_items, builder, index, group_start, ranges,
                   aut, result, work>>

SeekerIdle == CatalogInit /\ BuildInit /\ SearchInit

----------------------------------------------------------------------------
(* seeker.rs: DocItem::fmt_url, Display for DocItem *)

\* Longest path drawn for a rendered item
MaxPathLen == 4

ChColon == 58
ChSlash == 47
ChHash == 35
ChLetterV == 118
PathSep == <<ChColon, ChColon>>
DotHtml == <<46, 104, 116, 109, 108>>
SlashIndexHtml == <<47, 105, 110, 100, 101, 120, 46, 104, 116, 109, 108>>

\* The three items of the DocItem doc-test: std::vec::Vec::dedup, the
\* struct std::vec::Vec and the macro std::vec
VecDedup ==
    DocItem(TypeItem(5, <<100, 101, 100, 117, 112>>), Some(TypeItem(3, <<86, 101, 99>>)), <<115, 116, 100, 58, 58, 118, 101, 99>>, EmptyStr)
VecStruct == DocItem(TypeItem(3, <<86, 101, 99>>), None, <<115, 116, 100, 58, 58, 118, 101, 99>>, EmptyStr)
VecMacro == DocItem(TypeItem(14, <<118, 101, 99>>), None, <<115, 116, 100>>, EmptyStr)

\* The items rendered: module, struct, function and type-alias names, with
\* no parent, a struct parent or a module parent, under every path of
\* letters and colons up to the bound; and the doc-test's items
UrlItems ==
    {DocItem(TypeItem(t, <<120>>), p, q, EmptyStr) :
        t \in {0, 3, 5, 6},
        p \in {None, Some(TypeItem(3, <<86>>)), Some(TypeItem(0, <<109>>))},
        q \in SeqsUpTo({ChLetterV, ChColon}, MaxPathLen)}
    \cup {VecDedup, VecStruct, VecMacro}

\* str::find("::"): the first position where the separator starts, 0 if none
FindSep(str) ==
    LET hits == {i \in 1..Len(str) - 1 : str[i] = ChColon /\ str[i + 1] = ChColon}
    IN  IF hits = {} THEN 0 ELSE MinOf(hits)

\* The module arm dropped: a module rendered like any other item
UrlTailNoIndex(item) ==
    IF item.parent /= None
    THEN TypeItemDisplay(item.parent[1]) \o DotHtml \o <<ChHash>>
             \o TypeItemDisplay(item.name)
    ELSE TypeItemDisplay(item.name) \o DotHtml

\* What fmt_url writes after the path: "{parent}.html#{name}" with a
\* parent, "{name}/index.html" for a TypeItem::Module, else "{name}.html"
UrlTail(item) ==
    IF item.parent /= None
    THEN TypeItemDisplay(item.parent[1]) \o DotHtml \o <<ChHash>>
             \o TypeItemDisplay(item.name)
    ELSE IF item.name.tag = 0
         THEN item.name.data \o SlashIndexHtml
         ELSE TypeItemDisplay(item.name) \o DotHtml

UrlIdle ==
    /\ url_item = None
    /\ url_rest = None
    /\ url_out = <<>>
    /\ url_state = "idle"

\* fmt_url entered on an item: the split of its path not yet advanced
UrlInit ==
    /\ \E item \in UrlItems :
        /\ url_item = Some(item)
        /\ url_rest = Some(item.path)
    /\ url_out = <<>>
    /\ url_state = "path"

\* One iteration of `for part in self.path.split("::")`: the text up to the
\* next separator, or all that is left, is written with a '/' after it
UrlWritePart ==
    /\ url_state = "path"
    /\ url_rest /= None
    /\ LET rest == url_rest[1]
           at == FindSep(rest)
           part == IF at = 0 THEN rest ELSE SubSeq(rest, 1, at - 1)
       IN  /\ url_out' = url_out \o part \o <<ChSlash>>
           /\ url_rest' = IF at = 0 THEN None
                          ELSE Some(SubSeq(rest, at + 2, Len(rest)))
    /\ UNCHANGED <<url_item, url_state>>

\* The split is over: the parent and name part is written, fmt_url returns
UrlWriteTail ==
    /\ url_state = "path"
    /\ url_rest = None
    /\ url_out' = url_out \o UrlTail(url_item[1])
    /\ url_state' = "done"
    /\ UNCHANGED <<url_item, url_rest>>

----------------------------------------------------------------------------
(* Specifications *)

\* The catalog, the index built from it and the searches on the index
Init == JsonIdle /\ ParseInit /\ SeekerIdle /\ UrlIdle
Next ==
    \/ Extend /\ UNCHANGED <<json_vars, parse_vars, url_vars>>
    \/ BuildStart /\ UNCHANGED <<json_vars, parse_vars, url_vars>>
    \/ BuildGroup /\ UNCHANGED <<json_vars, parse_vars, url_vars>>
    \/ BuildFinish /\ UNCHANGED <<json_vars, parse_vars, url_vars>>
    \/ SearchCall /\ UNCHANGED <<json_vars, parse_vars, url_vars>>
    \/ SearchNext /\ UNCHANGED <<json_vars, parse_vars, url_vars>>
Spec == Init /\ [][Next]_vars

\* fix_json on every text of the bounded alphabet
JsonNext ==
    FixJsonStep /\ UNCHANGED <<parse_vars, catalog_vars, build_vars, search_vars, url_vars>>
InitJson == JsonInit /\ ParseInit /\ SeekerIdle /\ UrlIdle
SpecJson == InitJson /\ [][JsonNext]_vars

\* from_str on every bounded manifest text
ParseNext ==
    \/ ReadLine /\ UNCHANGED <<json_vars, catalog_vars, build_vars, search_vars, url_vars>>
    \/ ResolveItem /\ UNCHANGED <<json_vars, catalog_vars, build_vars, search_vars, url_vars>>
    \/ ParseFinish /\ UNCHANGED <<json_vars, catalog_vars, build_vars, search_vars, url_vars>>
InitParse == JsonIdle /\ ParseInit /\ SeekerIdle /\ UrlIdle
SpecParse == InitParse /\ [][ParseNext]_vars

\* fmt_url on every bounded item
UrlNext ==
    \/ UrlWritePart /\ UNCHANGED <<json_vars, parse_vars, catalog_vars, build_vars, search_vars>>
    \/ UrlWriteTail /\ UNCHANGED <<json_vars, parse_vars, catalog_vars, build_vars, search_vars>>
InitUrl == JsonIdle /\ ParseInit /\ SeekerIdle /\ UrlInit
SpecUrl == InitUrl /\ [][UrlNext]_vars

----------------------------------------------------------------------------
(* Properties of fix_json, under SpecJson *)

\* The text the normalizer is specified to produce: an N is replaced when
\* it is outside a string and not escaped; a character is escaped when the
\* one before it is a backslash that is not itself escaped; a quote that is
\* not escaped toggles the string flag
RECURSIVE SpecifiedFix(_, _, _, _)
SpecifiedFix(s, i, in_string, escaped) ==
    IF i > Len(s) THEN <<>>
    ELSE IF s[i] = ChN /\ ~in_string /\ ~escaped
         THEN NullLiteral \o SpecifiedFix(s, i + 1, in_string, FALSE)
         ELSE <<s[i]>> \o
              SpecifiedFix(s, i + 1,
                           IF s[i] = ChQuote /\ ~escaped THEN ~in_string ELSE in_string,
                           s[i] = ChBackslash /\ ~escaped)

\* C1: once the scan is over, the buffer is the input with exactly the N's
\* outside strings and not escaped replaced by null, all else copied
C1_ReplacesBareUnescapedN ==
    FixJsonDone => buffer = SpecifiedFix(json, 1, FALSE, FALSE)

----------------------------------------------------------------------------
(* Properties of the catalog, the index and the search, under Spec *)

\* The display form of a parent: absent, or category tag, dot, name
ParentDisplay(parent) ==
    IF parent = None THEN None ELSE Some(TypeItemDisplay(parent[1]))

\* The (lookup key, path, parent display) triple of an offered item
Triple(o) == <<o.key, o.path, ParentDisplay(o.parent)>>

\* Order by lookup key, then path, then parent display, absent first
TripleCmp(a, b) ==
    ThenWith(ThenWith(BytesCmp(index_key(a), index_key(b)),
                      BytesCmp(a.path, b.path)),
             OptionCmp(ParentDisplay(a.parent), ParentDisplay(b.parent)))

\* C2: a catalog holds exactly one item for each distinct (lookup key,
\* path, parent display) triple among the items offered to it
C2_OneItemPerTriple ==
    phase = "catalog" =>
        /\ Len(rustdoc_items) = Cardinality({Triple(o) : o \in offered})
        /\ {Triple(Offer(x)) : x \in SeqRange(rustdoc_items)}
               = {Triple(o) : o \in offered}

\* C7: the items of a catalog, and of the array built from it, ascend
\* strictly by lookup key, then path, then parent display, absent first
C7_AscendingByKeyPathParentDisplay ==
    /\ \A i, j \in 1..Len(rustdoc_items) :
            i < j => TripleCmp(rustdoc_items[i], rustdoc_items[j]) < 0
    /\ \A i, j \in 1..Len(seeker_items) :
            i < j => TripleCmp(seeker_items[i], seeker_items[j]) < 0

\* C3: in a built index every key's decoded range is non-empty, holds the
\* items of that key and no others, and the ranges in ascending key order
\* tile the array from its first position to its last
C3_RangePartition ==
    phase = "built" =>
        /\ \A k \in 1..Len(index) :
            LET start == DecodeStart(index[k].val)
                end == DecodeEnd(index[k].val)
            IN  /\ start < end
                /\ end <= Len(seeker_items)
                /\ \A i \in 1..Len(seeker_items) :
                       (start < i /\ i <= end)
                           <=> index_key(seeker_items[i]) = index[k].key
                /\ start = IF k = 1 THEN 0 ELSE DecodeEnd(index[k - 1].val)
                /\ k > 1 => BytesCmp(index[k - 1].key, index[k].key) < 0
        /\ Len(seeker_items) > 0 =>
               /\ Len(index) > 0
               /\ DecodeEnd(index[Len(index)].val) = Len(seeker_items)

\* A built index with two keys, one of them shared by several items
C3_Witness ==
    /\ phase = "built"
    /\ Len(index) = 2
    /\ \E k \in 1..Len(index) :
           DecodeEnd(index[k].val) - DecodeStart(index[k].val) >= 2

\* The automaton's verdict on a key: every byte fed from the start state
Accepts(a, key) == AutIsMatch(a, AutRun(a, AutStart(a), key))

RECURSIVE AcceptedItems(_, _)
AcceptedItems(a, items) ==
    IF items = <<>> THEN <<>>
    ELSE (IF Accepts(a, index_key(Head(items))) THEN <<Head(items)>> ELSE <<>>)
         \o AcceptedItems(a, Tail(items))

IsPrefix(s, t) == Len(s) <= Len(t) /\ SubSeq(t, 1, Len(s)) = s

\* The iterator has returned None
Exhausted == aut /= None /\ requested > Len(yielded)

\* C4: what a search has yielded is a prefix of the accepted items in array
\* order, and all of them once the iterator is exhausted
C4_SearchYieldsAcceptedInOrder ==
    aut /= None =>
        /\ phase = "built"
        /\ IsPrefix(yielded, AcceptedItems(aut[1], seeker_items))
        /\ Exhausted => yielded = AcceptedItems(aut[1], seeker_items)

\* An exhausted search of a selective matcher that yielded several items
C4_Witness ==
    /\ Exhausted
    /\ Len(yielded) >= 2
    /\ Len(yielded) < Len(seeker_items)

\* The entries inserted so far, in the builder or in the finished map
Entries == IF phase = "built" THEN index ELSE builder

\* C8: build gets past its assertion exactly when the item count fits the
\* half width; beyond it build fails with no entry inserted; and every
\* entry of a build that went on decodes to the start and end packed
C8_CapacityBoundary ==
    /\ Len(seeker_items) = U32Max => phase \in {"building", "built"}
    /\ Len(seeker_items) > U32Max =>
           phase = "capacity_panic" /\ builder = <<>> /\ index = <<>>
    /\ phase \in {"building", "built"} =>
           /\ Len(Entries) = Len(ranges)
           /\ \A k \in 1..Len(Entries) :
                  /\ ranges[k].start <= U32Max
                  /\ ranges[k].end <= U32Max
                  /\ DecodeStart(Entries[k].val) = ranges[k].start
                  /\ DecodeEnd(Entries[k].val) = ranges[k].end

\* An index built from a catalog whose item count is exactly the limit
C8_Witness ==
    /\ phase = "built"
    /\ Len(seeker_items) = U32Max
    /\ Len(index) > 0
    /\ DecodeEnd(index[Len(index)].val) = U32Max

----------------------------------------------------------------------------
(* Properties of from_str, under SpecParse *)

\* The raw items of the lines read, in order, each with its line and its
\* place in the line's fragment
RECURSIVE RawFlat(_, _)
RawFlat(ls, l) ==
    IF l > Len(ls) THEN <<>>
    ELSE [i \in 1..Len(ls[l].items) |-> [line |-> l, at |-> i]] \o RawFlat(ls, l + 1)

MaxOf(S) == CHOOSE x \in S : \A y \in S : x >= y

\* The path an item is specified to resolve to: its own when not empty,
\* else that of the nearest earlier item of its fragment whose own is not
\* empty, else the empty accumulator the fragment starts with
FoldedPath(items, i) ==
    LET earlier == {j \in 1..i : items[j].path /= EmptyStr}
    IN  IF earlier = {} THEN EmptyStr ELSE items[MaxOf(earlier)].path

\* C5: every emitted item carries the path folded over its own fragment
C5_PathFoldPerFragment ==
    /\ Len(parsed_items) <= Len(RawFlat(lines_read, 1))
    /\ \A k \in 1..Len(parsed_items) :
           LET r == RawFlat(lines_read, 1)[k]
           IN  parsed_items[k].path = FoldedPath(lines_read[r.line].items, r.at)

\* Two fragments resolved: in the first an item with an empty raw path takes
\* the path before it, in the second an item with an empty raw path at the
\* fragment's start keeps the empty accumulator
C5_Witness ==
    /\ Len(lines_read) = 2
    /\ Len(lines_read[1].items) = 2 /\ Len(lines_read[2].items) = 1
    /\ Len(parsed_items) = 3
    /\ lines_read[1].items[1].path = PathA
    /\ lines_read[1].items[2].path = EmptyStr
    /\ lines_read[2].items[1].path = EmptyStr
    /\ parsed_items[2].path = PathA
    /\ parsed_items[3].path = EmptyStr

\* C6: every emitted item has a non-empty path
C6_PathNeverEmpty ==
    \A k \in 1..Len(parsed_items) : parsed_items[k].path /= EmptyStr

\* A line from_str cannot get past: no '=', not a SearchIndex, an unknown
\* type tag, or a parent index outside the fragment's parent list
BadItem(line, i) ==
    \/ ~(line.items[i].ty \in 0..MaxTypeTag)
    \/ /\ line.items[i].parent_idx /= None
       /\ line.items[i].parent_idx[1] >= Len(line.paths)

BadLine(line) ==
    \/ line.kind \in {"noeq", "badjson"}
    \/ \E i \in 1..Len(line.items) : BadItem(line, i)

\* The parent an item is specified to get
SpecifiedParent(line, i) ==
    IF line.items[i].parent_idx = None THEN None
    ELSE Some(line.paths[line.items[i].parent_idx[1] + 1])

\* C10: a catalog is returned only when no line read is bad, and then it
\* holds one item per raw item, in order, each with its specified parent;
\* once a bad line is read nothing is returned and the parse has panicked
\* or is still before the bad item
C10_AllOrNothing ==
    /\ returned /= None =>
           /\ parse_state = "ok"
           /\ \A l \in 1..Len(lines_read) : ~BadLine(lines_read[l])
           /\ Len(returned[1]) = Len(RawFlat(lines_read, 1))
           /\ \A k \in 1..Len(returned[1]) :
                  LET r == RawFlat(lines_read, 1)[k]
                      raw == lines_read[r.line].items[r.at]
                  IN  /\ returned[1][k].name = raw.name
                      /\ returned[1][k].ty = raw.ty
                      /\ returned[1][k].desc = raw.desc
                      /\ returned[1][k].parent = SpecifiedParent(lines_read[r.line], r.at)
    /\ (\E l \in 1..Len(lines_read) : BadLine(lines_read[l])) =>
           /\ returned = None
           /\ parse_state /= "ok"
           /\ parse_state /= "panic" =>
                  /\ parse_state = "items"
                  /\ BadLine(lines_read[Len(lines_read)])
                  /\ \A i \in 1..item_pos : ~BadItem(lines_read[Len(lines_read)], i)
    /\ parse_state = "panic" => returned = None

\* A catalog returned for two fragments, with an item that has no parent
\* and an item whose parent is the second entry of its parent list
C10_Witness ==
    /\ returned /= None
    /\ Len(lines_read) = 2
    /\ Len(returned[1]) = 3
    /\ \E k \in 1..Len(returned[1]) : returned[1][k].parent = None
    /\ \E k \in 1..Len(returned[1]) :
           returned[1][k].parent = Some([ty |-> 4, name |-> <<87>>])

----------------------------------------------------------------------------
(* Properties of fmt_url, under SpecUrl *)

\* The segments of a path: the texts between its "::" separators, taken
\* from the left
RECURSIVE Segments(_)
Segments(str) ==
    IF FindSep(str) = 0 THEN <<str>>
    ELSE <<SubSeq(str, 1, FindSep(str) - 1)>>
         \o Segments(SubSeq(str, FindSep(str) + 2, Len(str)))

\* The texts of a sequence joined by '/'
RECURSIVE JoinSlash(_)
JoinSlash(texts) ==
    IF Len(texts) = 1 THEN texts[1]
    ELSE texts[1] \o <<ChSlash>> \o JoinSlash(Tail(texts))

\* The category tags of the rendered items: fn for a function and type for
\* a type-alias, the category's own name for module, struct and macro
CategoryTag(tag) ==
    CASE tag = 5 -> <<102, 110>>
      [] tag = 6 -> <<116, 121, 112, 101>>
      [] tag = 0 -> <<109, 111, 100, 117, 108, 101>>
      [] tag = 3 -> <<115, 116, 114, 117, 99, 116>>
      [] tag = 14 -> <<109, 97, 99, 114, 111>>

\* <x-display>: category tag, dot, bare name
XDisplay(t) == CategoryTag(t.tag) \o <<ChDot>> \o t.data

\* The last component of the display path
SpecifiedTail(item) ==
    IF item.parent /= None
    THEN XDisplay(item.parent[1]) \o DotHtml \o <<ChHash>> \o XDisplay(item.name)
    ELSE IF item.name.tag = 0 THEN item.name.data \o SlashIndexHtml
    ELSE XDisplay(item.name) \o DotHtml

\* C11: the rendered display path is the path's segments and the last
\* component joined by '/', the last component being
\* <parent-display>.html#<name-display> with a parent, <name>/index.html
\* for a module without one, and <name-display>.html otherwise; the
\* function dedup of struct Vec at std::vec renders to
\* std/vec/struct.Vec.html#fn.dedup
C11_DisplayPath ==
    url_state = "done" =>
        /\ url_out = JoinSlash(Segments(url_item[1].path)
                               \o <<SpecifiedTail(url_item[1])>>)
        /\ url_item[1] = VecDedup => url_out = <<115, 116, 100, 47, 118, 101, 99, 47, 115, 116, 114, 117, 99, 116, 46, 86, 101, 99, 46, 104, 116, 109, 108, 35, 102, 110, 46, 100, 101, 100, 117, 112>>
        /\ url_item[1] = VecStruct => url_out = <<115, 116, 100, 47, 118, 101, 99, 47, 115, 116, 114, 117, 99, 116, 46, 86, 101, 99, 46, 104, 116, 109, 108>>
        /\ url_item[1] = VecMacro => url_out = <<115, 116, 100, 47, 109, 97, 99, 114, 111, 46, 118, 101, 99, 46, 104, 116, 109, 108>>

\* The doc-test's function with a parent, rendered
C11_Witness ==
    /\ url_state = "done"
    /\ url_item[1] = VecDedup
    /\ url_out = <<115, 116, 100, 47, 118, 101, 99, 47, 115, 116, 114, 117, 99, 116, 46, 86, 101, 99, 46, 104, 116, 109, 108, 35, 102, 110, 46, 100, 101, 100, 117, 112>>

====
